---- MODULE Spec2Model ----
(***************************************************************************)
(* A model of app.py, the smart-lab.ru financial-statement scraper:        *)
(*   get_tickers         ticker discovery on the listing page              *)
(*   get_financial_data  per-ticker field extraction                       *)
(*   the "Start Scraping" block, the loop that drives both and exports     *)
(*                                                                         *)
(* Texts are sequences of atoms, so that str.split, str.strip,             *)
(* str.startswith, "in" and the link pattern are computed on the text as   *)
(* Python computes them.  In an href every atom is one character.  In page *)
(* text an atom is a blank, a filler word, or one whole key phrase of the  *)
(* source; the Cyrillic phrases are written in Latin transliteration and   *)
(* keep the source's letter case ("Aktivy" is no part of "Chistye aktivy").*)
(***************************************************************************)
EXTENDS Integers, Sequences, FiniteSets, TLC

VARIABLES
    listing,     \* the links (href texts) the listing page serves
    cache,       \* st.cache_data entry of get_tickers: None or Some(ticker list)
    pc,          \* position of the script run
    discovery,   \* how get_tickers() ended in this run
    tickers,     \* the script's `tickers`
    i,           \* number of loop iterations completed
    results,     \* the script's `results`: None while it does not exist
    requests,    \* URLs given to requests.get in this run, in order
    errors,      \* operator-visible st.error messages of this run
    exported,    \* the two download blobs: None while they do not exist
    xpc,         \* position inside one stepwise get_financial_data call
    ticker,      \* its argument
    response,    \* outcome of its requests.get
    k,           \* rows of the page already visited by its row loop
    data,        \* its `data` dict
    ret          \* what it returned: None or Some(record)

vars == <<listing, cache, pc, discovery, tickers, i, results, requests, errors, exported,
          xpc, ticker, response, k, data, ret>>

\* Python's None (also: an object that does not exist yet) and a present value
None == <<>>
Some(v) == <<v>>

(***************************************************************************)
(* Bounds                                                                  *)
(***************************************************************************)
MaxLinks == 3
MaxRows == 2

(***************************************************************************)
(* Text helpers                                                            *)
(***************************************************************************)
\* s[p:p+len(t)] == t
MatchAt(s, p, t) ==
    /\ p >= 1
    /\ p + Len(t) - 1 <= Len(s)
    /\ \A j \in 1..Len(t) : s[p + j - 1] = t[j]

\* t in s
Contains(s, t) == \E p \in 1..(Len(s) + 1) : MatchAt(s, p, t)

\* s.startswith(t)
StartsWith(s, t) == MatchAt(s, 1, t)

\* position of the leftmost occurrence of t in s (0 if none)
Find(s, t) ==
    IF Contains(s, t)
    THEN CHOOSE p \in 1..(Len(s) + 1) :
            MatchAt(s, p, t) /\ \A q \in 1..(p - 1) : ~MatchAt(s, q, t)
    ELSE 0

WhiteSpace == {" "}

RECURSIVE LStrip(_)
LStrip(s) ==
    IF s # <<>> /\ Head(s) \in WhiteSpace THEN LStrip(Tail(s)) ELSE s

RECURSIVE RStrip(_)
RStrip(s) ==
    IF s # <<>> /\ s[Len(s)] \in WhiteSpace THEN RStrip(SubSeq(s, 1, Len(s) - 1)) ELSE s

\* str.strip()
Strip(s) == RStrip(LStrip(s))

\* str.split(sep) for a one-character separator
RECURSIVE Split(_, _)
Split(s, sep) ==
    LET p == Find(s, <<sep>>)
    IN  IF p = 0
        THEN <<s>>
        ELSE <<SubSeq(s, 1, p - 1)>> \o Split(SubSeq(s, p + 1, Len(s)), sep)

(***************************************************************************)
(* Ticker discovery                                                        *)
(***************************************************************************)
UpperCase == {"A", "B"}

\* re.compile(r'/q/[A-Z]+/f/y/') matching from position p with a run of n letters
PatternAt(href, p, n) ==
    /\ n >= 1
    /\ MatchAt(href, p, <<"/", "q", "/">>)
    /\ p + 2 + n <= Len(href)
    /\ \A j \in (p + 3)..(p + 2 + n) : href[j] \in UpperCase
    /\ MatchAt(href, p + 3 + n, <<"/", "f", "/", "y", "/">>)

\* find_all('a', href=pattern): the pattern is searched anywhere in the href
PatternSearch(href) ==
    \E p \in 1..Len(href) : \E n \in 1..Len(href) : PatternAt(href, p, n)

\* link['href'].split('/')[2]
TickerOfLink(href) == Split(href, "/")[3]

\* ScanLinks without the `if ticker not in tickers` test
RECURSIVE ScanLinksNoDedup(_, _)
ScanLinksNoDedup(links, acc) ==
    IF links = <<>>
    THEN acc
    ELSE IF PatternSearch(Head(links))
         THEN ScanLinksNoDedup(Tail(links), Append(acc, TickerOfLink(Head(links))))
         ELSE ScanLinksNoDedup(Tail(links), acc)

\* the loop of get_tickers over the links of the page
RECURSIVE ScanLinks(_, _)
ScanLinks(links, acc) ==
    IF links = <<>>
    THEN acc
    ELSE LET href == Head(links)
             t == TickerOfLink(href)
         IN  IF PatternSearch(href) /\ \A j \in 1..Len(acc) : acc[j] # t
             THEN ScanLinks(Tail(links), Append(acc, t))
             ELSE ScanLinks(Tail(links), acc)

\* get_tickers() on a fetched page
get_tickers(links) == ScanLinks(links, <<>>)

(***************************************************************************)
(* Field extraction                                                        *)
(*                                                                         *)
(* A detail page is [rows, links]: its <tr> rows in document order and the *)
(* texts of its <a> elements.  A row is [th, tds]: th is None or           *)
(* Some(nodes), the child nodes of its first header cell, each node        *)
(* [tag, text] with tag "text" (a direct text node) or "span"; tds are the *)
(* texts of its data cells.                                                *)
(***************************************************************************)
HostMarker == <<"smart-lab.ru">>
SectorPhrase == <<"Analiz sektora ">>
LblEBITDA == <<"EBITDA">>
LblNetProfit == <<"Chistaya pribyl">>
LblNetDebt == <<"Chistyi dolg">>
LblNetAssets == <<"Chistye aktivy">>
LblAssets == <<"Aktivy">>
LblROE == <<"ROE">>
LblROA == <<"ROA">>
LblNetMargin == <<"Chistaya rentab">>

\* the dict literal of get_financial_data
InitData(t) ==
    [Ticker |-> t, Company_Name |-> None, Sector |-> None, EBITDA |-> None,
     Net_Profit |-> None, Net_Debt |-> None, Net_Assets |-> None, Assets |-> None,
     ROE |-> None, ROA |-> None, Net_Margin |-> None]

\* tag.find('span'): the first span below the tag, or None
FindSpan(nodes) ==
    LET at == {j \in 1..Len(nodes) : nodes[j].tag = "span"}
    IN  IF at = {} THEN None
        ELSE Some(nodes[CHOOSE j \in at : \A q \in at : j <= q])

\* tag.find(text=True, recursive=False): the first direct text node, or None
FindDirectText(nodes) ==
    LET at == {j \in 1..Len(nodes) : nodes[j].tag = "text"}
    IN  IF at = {} THEN None
        ELSE Some(nodes[CHOOSE j \in at : \A q \in at : j <= q].text)

\* tag.text / tag.get_text(): the texts of all nodes below the tag, joined
RECURSIVE TagText(_)
TagText(nodes) ==
    IF nodes = <<>> THEN <<>> ELSE Head(nodes).text \o TagText(Tail(nodes))

\* soup.find_all('th'), given that header cells stand in rows
RECURSIVE AllTh(_)
AllTh(rows) ==
    IF rows = <<>> THEN <<>>
    ELSE (IF Head(rows).th = None THEN <<>> ELSE <<Head(rows).th[1]>>) \o AllTh(Tail(rows))

\* The company-name loop.  The result is [raised, data]: raised when
\* .strip() is called on the None that find() gave for a header cell whose
\* span carries the host marker and that has no direct text.
RECURSIVE NameScan(_, _)
NameScan(ths, d) ==
    IF ths = <<>>
    THEN [raised |-> FALSE, data |-> d]
    ELSE LET th_tag == Head(ths)
             span == FindSpan(th_tag)
         IN  IF span # None /\ Contains(span[1].text, HostMarker)
             THEN LET node == FindDirectText(th_tag)
                  IN  IF node = None
                      THEN [raised |-> TRUE, data |-> d]
                      ELSE NameScan(Tail(ths),
                                    [d EXCEPT !.Company_Name = Some(Strip(node[1]))])
             ELSE NameScan(Tail(ths), d)

\* text.split(phrase, 1)[-1]
AfterFirst(text, phrase) ==
    LET p == Find(text, phrase)
    IN  IF p = 0 THEN text ELSE SubSeq(text, p + Len(phrase), Len(text))

\* The sector loop over the <a> elements
RECURSIVE SectorScan(_, _)
SectorScan(links, d) ==
    IF links = <<>>
    THEN d
    ELSE LET text == Head(links)
         IN  IF Contains(text, SectorPhrase)
             THEN SectorScan(Tail(links),
                             [d EXCEPT !.Sector = Some(Strip(AfterFirst(text, SectorPhrase)))])
             ELSE SectorScan(Tail(links), d)

\* Classify with `'EBITDA' in field_text` for the first test
ClassifyEBITDAAnywhere(d, field_text, value) ==
    IF Contains(field_text, LblEBITDA) THEN [d EXCEPT !.EBITDA = Some(value)]
    ELSE IF Contains(field_text, LblNetProfit) THEN [d EXCEPT !.Net_Profit = Some(value)]
    ELSE IF Contains(field_text, LblNetDebt) THEN [d EXCEPT !.Net_Debt = Some(value)]
    ELSE IF Contains(field_text, LblNetAssets) THEN [d EXCEPT !.Net_Assets = Some(value)]
    ELSE IF Contains(field_text, LblAssets) /\ d.Assets = None
         THEN [d EXCEPT !.Assets = Some(value)]
    ELSE IF Contains(field_text, LblROE) THEN [d EXCEPT !.ROE = Some(value)]
    ELSE IF Contains(field_text, LblROA) THEN [d EXCEPT !.ROA = Some(value)]
    ELSE IF Contains(field_text, LblNetMargin) THEN [d EXCEPT !.Net_Margin = Some(value)]
    ELSE d

\* Classify without the `data['Assets'] is None` guard
ClassifyAssetsUnguarded(d, field_text, value) ==
    IF StartsWith(field_text, LblEBITDA) THEN [d EXCEPT !.EBITDA = Some(value)]
    ELSE IF Contains(field_text, LblNetProfit) THEN [d EXCEPT !.Net_Profit = Some(value)]
    ELSE IF Contains(field_text, LblNetDebt) THEN [d EXCEPT !.Net_Debt = Some(value)]
    ELSE IF Contains(field_text, LblNetAssets) THEN [d EXCEPT !.Net_Assets = Some(value)]
    ELSE IF Contains(field_text, LblAssets) THEN [d EXCEPT !.Assets = Some(value)]
    ELSE IF Contains(field_text, LblROE) THEN [d EXCEPT !.ROE = Some(value)]
    ELSE IF Contains(field_text, LblROA) THEN [d EXCEPT !.ROA = Some(value)]
    ELSE IF Contains(field_text, LblNetMargin) THEN [d EXCEPT !.Net_Margin = Some(value)]
    ELSE d

\* The if/elif chain on the label of a candidate row
Classify(d, field_text, value) ==
    IF StartsWith(field_text, LblEBITDA) THEN [d EXCEPT !.EBITDA = Some(value)]
    ELSE IF Contains(field_text, LblNetProfit) THEN [d EXCEPT !.Net_Profit = Some(value)]
    ELSE IF Contains(field_text, LblNetDebt) THEN [d EXCEPT !.Net_Debt = Some(value)]
    ELSE IF Contains(field_text, LblNetAssets) THEN [d EXCEPT !.Net_Assets = Some(value)]
    ELSE IF Contains(field_text, LblAssets) /\ d.Assets = None
         THEN [d EXCEPT !.Assets = Some(value)]
    ELSE IF Contains(field_text, LblROE) THEN [d EXCEPT !.ROE = Some(value)]
    ELSE IF Contains(field_text, LblROA) THEN [d EXCEPT !.ROA = Some(value)]
    ELSE IF Contains(field_text, LblNetMargin) THEN [d EXCEPT !.Net_Margin = Some(value)]
    ELSE d

\* One pass of the row loop.  A Tag is always truthy, so `if value_cell:`
\* never skips.
RowStep(d, row) ==
    IF row.th = None THEN d
    ELSE IF Len(row.tds) < 6 THEN d
    ELSE Classify(d, Strip(TagText(row.th[1])), Strip(row.tds[Len(row.tds) - 2]))

RECURSIVE RowsScan(_, _)
RowsScan(rows, d) ==
    IF rows = <<>> THEN d ELSE RowsScan(Tail(rows), RowStep(d, Head(rows)))

\* requests.get either raises or gives a page
Raises == [raises |-> TRUE, rows |-> <<>>, links |-> <<>>]
Page(rows, links) == [raises |-> FALSE, rows |-> rows, links |-> links]

\* Caught with the try statement closed right after requests.get
CaughtFetchOnly(where) == where = "fetch"

\* Caught with no try statement at all
CaughtNothing(where) == FALSE

\* The places of the function where an exception arises, and whether its
\* try statement encloses them: "fetch" is requests.get, "name" is the
\* .strip() of the company-name loop.
Caught(where) == where \in {"fetch", "name"}

\* The body of the try statement: which place raised (None if none) and the dict
TryBody(t, resp) ==
    IF resp.raises
    THEN [raised |-> Some("fetch"), data |-> InitData(t)]
    ELSE LET n == NameScan(AllTh(resp.rows), InitData(t))
         IN  IF n.raised
             THEN [raised |-> Some("name"), data |-> n.data]
             ELSE [raised |-> None,
                   data |-> RowsScan(resp.rows, SectorScan(resp.links, n.data))]

\* The error text of the except clause
ErrorProcessing(t) == [text |-> "Error processing", ticker |-> t]

\* get_financial_data(ticker) as one call: what reaches the caller.
\* escaped: an exception left the function; otherwise value is the return
\* value and reported the st.error texts.
get_financial_data(t, resp) ==
    LET b == TryBody(t, resp)
    IN  IF b.raised = None
        THEN [escaped |-> FALSE, value |-> Some(b.data), reported |-> <<>>]
        ELSE IF Caught(b.raised[1])
        THEN [escaped |-> FALSE, value |-> None, reported |-> <<ErrorProcessing(t)>>]
        ELSE [escaped |-> TRUE, value |-> None, reported |-> <<>>]

(***************************************************************************)
(* What the site serves                                                    *)
(***************************************************************************)
\* hrefs of the listing page, character by character
HrefA == <<"/", "q", "/", "A", "/", "f", "/", "y", "/">>
HrefB == <<"/", "q", "/", "B", "/", "f", "/", "y", "/", "h", "/">>
HrefAB == <<"/", "q", "/", "A", "B", "/", "f", "/", "y", "/">>
\* an absolute URL: scheme, empty segment, host, then the path
HrefAbsA == <<"h", "/", "/", "h", "/", "q", "/", "A", "/", "f", "/", "y", "/">>
\* a path with an extra leading segment
HrefSubB == <<"/", "h", "/", "q", "/", "B", "/", "f", "/", "y", "/">>
\* hrefs the pattern rejects: a lowercase segment, no trailing slash
HrefLower == <<"/", "q", "/", "h", "/", "f", "/", "y", "/">>
HrefOpen == <<"/", "q", "/", "A", "/", "f", "/", "y">>

Hrefs == {HrefA, HrefB, HrefAB, HrefAbsA, HrefSubB, HrefLower, HrefOpen}

SeqsUpTo(S, n) == UNION {[1..m -> S] : m \in 0..n}

Listings == SeqsUpTo(Hrefs, MaxLinks)

\* data cells of a row: n cells, the third from last holding v
Cells(n, v) == [j \in 1..n |-> IF j = n - 2 THEN v ELSE <<"-">>]

TextNode(text) == [tag |-> "text", text |-> text]
SpanNode(text) == [tag |-> "span", text |-> text]
Row(th, tds) == [th |-> th, tds |-> tds]

CellValues == {<<" ", "1", " ">>, <<"2">>}

RowLabels ==
    { <<" ", "EBITDA", " ">>, LblNetProfit, LblNetDebt, LblNetAssets, LblAssets,
      LblROE, LblROA, LblNetMargin,
      LblNetAssets \o <<"(">> \o LblEBITDA \o <<")">>,
      LblNetProfit \o LblNetAssets \o LblEBITDA,
      LblEBITDA \o LblNetProfit,
      LblAssets \o LblROE,
      <<"Vyruchka">> }

\* report rows with a label and six data cells
DataRows == {Row(Some(<<TextNode(l)>>), Cells(6, v)) : l \in RowLabels, v \in CellValues}

\* the page's title row: the company name followed by the host-marker span
NameRow == Row(Some(<<TextNode(<<" ", "Sber", " ">>), SpanNode(HostMarker)>>),
               Cells(6, <<"2023">>))
\* a header cell whose only child is the host-marker span
BareSpanRow == Row(Some(<<SpanNode(HostMarker)>>), <<>>)
\* a header cell with another span
OtherSpanRow == Row(Some(<<SpanNode(<<"mln">>), TextNode(LblROE)>>), Cells(7, <<"3">>))
\* rows the row loop skips: no header cell, or fewer than six data cells
NoThRow == Row(None, Cells(6, <<"4">>))
ShortRow == Row(Some(<<TextNode(LblAssets)>>), Cells(5, <<"5">>))

PageRows == DataRows \cup {NameRow, BareSpanRow, OtherSpanRow, NoThRow, ShortRow}

PageLinks ==
    { <<>>,
      << <<"Forum">> >>,
      << SectorPhrase \o <<"Banki", " ">>, SectorPhrase \o <<"Neft">> >> }

\* outcomes of the fetch of a detail page
Responses ==
    {Raises} \cup {Page(rows, links) : rows \in SeqsUpTo(PageRows, MaxRows), links \in PageLinks}

\* the detail pages met by the whole-run specification
RunResponses ==
    { Raises,
      Page(<<>>, <<>>),
      Page(<<NameRow, Row(Some(<<TextNode(LblAssets)>>), Cells(6, <<"2">>))>>, <<>>),
      Page(<<BareSpanRow>>, <<>>) }

(***************************************************************************)
(* The script run: the body of `if st.button("Start Scraping")`            *)
(***************************************************************************)
\* the two URLs of the script: the listing, and f".../q/{ticker}/f/y/MSFO/"
ListingUrl == [page |-> "shares", ticker |-> <<>>]
DetailUrl(t) == [page |-> "MSFO", ticker |-> t]

FailedToRetrieve == [text |-> "Failed to retrieve tickers", ticker |-> <<>>]

Columns == <<"Ticker", "Company_Name", "Sector", "EBITDA", "Net_Profit", "Net_Debt",
             "Net_Assets", "Assets", "ROE", "ROA", "Net_Margin">>

\* pd.DataFrame(results) written to a file: the header row and one row per record
Blob(file, table) ==
    [file |-> file, header |-> IF table = <<>> THEN <<>> ELSE Columns, rows |-> table]

\* Branch without the `if tickers:` test
BranchUntested(ts) ==
    /\ tickers' = ts
    /\ i' = 0
    /\ exported' = None
    /\ pc' = "loop"
    /\ results' = Some(<<>>)
    /\ errors' = <<>>

\* `if tickers:` and what follows it up to the loop
Branch(ts) ==
    /\ tickers' = ts
    /\ i' = 0
    /\ exported' = None
    /\ IF ts # <<>>
       THEN /\ pc' = "loop"
            /\ results' = Some(<<>>)
            /\ errors' = <<>>
       ELSE /\ pc' = "failed"
            /\ results' = None
            /\ errors' = <<FailedToRetrieve>>

Clickable == pc \in {"idle", "done", "failed", "crashed"}

\* The button is pressed, get_tickers() misses its cache and fetches the listing
StartFetch ==
    /\ Clickable
    /\ cache = None
    /\ discovery' = "fetched"
    /\ requests' = <<ListingUrl>>
    /\ cache' = Some(get_tickers(listing))
    /\ Branch(get_tickers(listing))
    /\ UNCHANGED <<listing, xpc, ticker, response, k, data, ret>>

\* The button is pressed and requests.get of the listing raises: get_tickers
\* has no try statement, so the exception ends the script run
StartRaise ==
    /\ Clickable
    /\ cache = None
    /\ discovery' = "raised"
    /\ pc' = "crashed"
    /\ tickers' = <<>>
    /\ i' = 0
    /\ requests' = <<ListingUrl>>
    /\ results' = None
    /\ errors' = <<>>
    /\ exported' = None
    /\ UNCHANGED <<listing, cache, xpc, ticker, response, k, data, ret>>

\* The button is pressed within the hour: st.cache_data answers
StartCached ==
    /\ Clickable
    /\ cache # None
    /\ discovery' = "cached"
    /\ requests' = <<>>
    /\ Branch(cache[1])
    /\ UNCHANGED <<listing, cache, xpc, ticker, response, k, data, ret>>

\* ttl=3600 passes
Expire ==
    /\ cache # None
    /\ cache' = None
    /\ UNCHANGED <<listing, pc, discovery, tickers, i, results, requests, errors, exported,
                   xpc, ticker, response, k, data, ret>>

\* One iteration of `for i, ticker in enumerate(tickers)`
LoopStep ==
    /\ pc = "loop"
    /\ i < Len(tickers)
    /\ \E resp \in RunResponses :
          LET t == tickers[i + 1]
              out == get_financial_data(t, resp)
          IN  /\ requests' = Append(requests, DetailUrl(t))
              /\ errors' = errors \o out.reported
              /\ IF out.escaped
                 THEN /\ pc' = "crashed"
                      /\ UNCHANGED <<i, results>>
                 ELSE /\ pc' = pc
                      /\ i' = i + 1
                      /\ results' = IF out.value # None
                                    THEN Some(Append(results[1], out.value[1]))
                                    ELSE results
    /\ UNCHANGED <<listing, cache, discovery, tickers, exported,
                   xpc, ticker, response, k, data, ret>>

\* After the loop: the final DataFrame and the two download buttons
Export ==
    /\ pc = "loop"
    /\ i = Len(tickers)
    /\ exported' = Some([excel |-> Blob("financial_data.xlsx", results[1]),
                         csv |-> Blob("financial_data.csv", results[1])])
    /\ pc' = "done"
    /\ UNCHANGED <<listing, cache, discovery, tickers, i, results, requests, errors,
                   xpc, ticker, response, k, data, ret>>

RunInit ==
    /\ listing \in Listings
    /\ cache = None
    /\ pc = "idle"
    /\ discovery = "none"
    /\ tickers = <<>>
    /\ i = 0
    /\ results = None
    /\ requests = <<>>
    /\ errors = <<>>
    /\ exported = None

CallIdle ==
    /\ xpc = "idle"
    /\ ticker = <<>>
    /\ response = Raises
    /\ k = 0
    /\ data = None
    /\ ret = None

Init == RunInit /\ CallIdle

Next == StartFetch \/ StartRaise \/ StartCached \/ Expire \/ LoopStep \/ Export

Spec == Init /\ [][Next]_vars

\* The script is sequential: once started, the loop and the export go on
FairSpec == Init /\ [][Next]_vars /\ WF_vars(LoopStep) /\ WF_vars(Export)

(***************************************************************************)
(* One get_financial_data call, step by step                               *)
(***************************************************************************)
\* what a call leaves alone in the script (its request and st.error aside)
runFrame == <<listing, cache, pc, discovery, tickers, i, results, exported>>

\* an exception raised at a place of the function
Raise(where) ==
    xpc' = IF Caught(where) THEN "except" ELSE "escaped"

\* requests.get, BeautifulSoup and the dict literal
XFetch ==
    /\ xpc = "call"
    /\ IF response.raises
       THEN Raise("fetch") /\ UNCHANGED data
       ELSE xpc' = "name" /\ data' = InitData(ticker)
    /\ requests' = Append(requests, DetailUrl(ticker))
    /\ UNCHANGED <<ticker, response, k, ret, errors>>
    /\ UNCHANGED runFrame

\* the company-name loop
XName ==
    /\ xpc = "name"
    /\ LET n == NameScan(AllTh(response.rows), data)
       IN  /\ data' = n.data
           /\ IF n.raised THEN Raise("name") ELSE xpc' = "sector"
    /\ UNCHANGED <<ticker, response, k, ret, errors, requests>>
    /\ UNCHANGED runFrame

\* the sector loop
XSector ==
    /\ xpc = "sector"
    /\ data' = SectorScan(response.links, data)
    /\ xpc' = "rows"
    /\ UNCHANGED <<ticker, response, k, ret, errors, requests>>
    /\ UNCHANGED runFrame

\* one pass of `for row in rows`
XRow ==
    /\ xpc = "rows"
    /\ k < Len(response.rows)
    /\ data' = RowStep(data, response.rows[k + 1])
    /\ k' = k + 1
    /\ UNCHANGED <<xpc, ticker, response, ret, errors, requests>>
    /\ UNCHANGED runFrame

\* return data
XReturn ==
    /\ xpc = "rows"
    /\ k = Len(response.rows)
    /\ ret' = Some(data)
    /\ xpc' = "returned"
    /\ UNCHANGED <<ticker, response, k, data, errors, requests>>
    /\ UNCHANGED runFrame

\* the except clause
XExcept ==
    /\ xpc = "except"
    /\ errors' = Append(errors, ErrorProcessing(ticker))
    /\ ret' = None
    /\ xpc' = "returned"
    /\ UNCHANGED <<ticker, response, k, data, requests>>
    /\ UNCHANGED runFrame

CallInit ==
    /\ xpc = "call"
    /\ ticker \in {<<"A">>, <<"A", "B">>}
    /\ response \in Responses
    /\ k = 0
    /\ data = None
    /\ ret = None

RunIdle ==
    /\ listing = <<>>
    /\ cache = None
    /\ pc = "idle"
    /\ discovery = "none"
    /\ tickers = <<>>
    /\ i = 0
    /\ results = None
    /\ requests = <<>>
    /\ errors = <<>>
    /\ exported = None

InitExtract == RunIdle /\ CallInit

NextExtract == XFetch \/ XName \/ XSector \/ XRow \/ XReturn \/ XExcept

SpecExtract == InitExtract /\ [][NextExtract]_vars

(***************************************************************************)
(* Properties of discovery and of the script run                           *)
(***************************************************************************)
\* the links of the listing that find_all gives
MatchingLinks == SelectSeq(listing, PatternSearch)

\* the letters the pattern matched between '/q/' and '/f/y/' (leftmost match)
MatchedSegment(href) ==
    LET at == {p \in 1..Len(href) : \E n \in 1..Len(href) : PatternAt(href, p, n)}
        p0 == CHOOSE p \in at : \A q \in at : p <= q
        n0 == CHOOSE n \in 1..Len(href) : PatternAt(href, p0, n)
    IN  SubSeq(href, p0 + 3, p0 + 2 + n0)

\* the ticker each matching link names, in page order
LinkedTickers == [j \in 1..Len(MatchingLinks) |-> MatchedSegment(MatchingLinks[j])]

FirstAt(seq, x) == CHOOSE j \in 1..Len(seq) : seq[j] = x /\ \A q \in 1..(j - 1) : seq[q] # x

\* out holds each distinct element of seq exactly once, in first-occurrence order
IsFirstSeenDedup(out, seq) ==
    /\ {out[j] : j \in 1..Len(out)} = {seq[j] : j \in 1..Len(seq)}
    /\ \A a, b \in 1..Len(out) : a < b =>
          /\ out[a] # out[b]
          /\ FirstAt(seq, out[a]) < FirstAt(seq, out[b])

IsUpperWord(t) == t # <<>> /\ \A j \in 1..Len(t) : t[j] \in UpperCase

Discovered == discovery \in {"fetched", "cached"}

DetailRequests == SelectSeq(requests, LAMBDA r : r.page = "MSFO")

\* C4: get_tickers returns each distinct ticker of the matching links exactly
\* once, ordered by the position of its first occurrence among the links.
C4_DedupFirstSeen ==
    discovery = "fetched" => IsFirstSeenDedup(tickers, LinkedTickers)

\* C10: every ticker get_tickers returns is a non-empty word of uppercase
\* letters and is the segment the pattern matched in some link of the page.
C10_TickerIsMatchedSegment ==
    discovery = "fetched" =>
        \A j \in 1..Len(tickers) :
            /\ IsUpperWord(tickers[j])
            /\ \E l \in 1..Len(LinkedTickers) : LinkedTickers[l] = tickers[j]

\* C5: when the listing fetch raises or the page has no matching link, the
\* caller gets an empty sequence and the run reports "failed to retrieve
\* tickers"; it does not end with an uncaught exception.
C5_FetchFailureIsEmptyResult ==
    (discovery = "raised" \/ (discovery = "fetched" /\ MatchingLinks = <<>>)) =>
        /\ pc = "failed"
        /\ tickers = <<>>
        /\ errors = <<FailedToRetrieve>>

\* C6: a run whose discovery gave no ticker stops at the operator-visible
\* error: no detail page is requested, no table exists, nothing is exported,
\* and the listing is requested at most once.
C6_EmptyDiscoveryHalts ==
    (Discovered /\ tickers = <<>>) =>
        /\ pc = "failed"
        /\ errors = <<FailedToRetrieve>>
        /\ DetailRequests = <<>>
        /\ Len(requests) <= 1
        /\ results = None
        /\ exported = None

C6_Witness ==
    /\ pc = "failed"
    /\ discovery = "fetched"
    /\ listing # <<>>
    /\ requests = <<ListingUrl>>

\* the Ticker column of the table
TableTickers == [j \in 1..Len(results[1]) |-> results[1][j].Ticker]

\* a is a subsequence of b (b has no repeated element)
IsSubsequence(a, b) ==
    /\ \A j \in 1..Len(a) : \E p \in 1..Len(b) : b[p] = a[j]
    /\ \A j, l \in 1..Len(a) : j < l => FirstAt(b, a[j]) < FirstAt(b, a[l])

\* C2: the loop requests every discovered ticker exactly once, in discovery
\* order, whichever extractions failed; each finished iteration either added
\* one row or reported one error and added none; and a started loop reaches
\* the export with all tickers requested.
C2_LoopInv ==
    pc \in {"loop", "done"} =>
        /\ DetailRequests = [j \in 1..i |-> DetailUrl(tickers[j])]
        /\ Len(results[1]) + Len(errors) = i
        /\ \A j \in 1..Len(errors) : errors[j].text = "Error processing"
        /\ pc = "done" => (i = Len(tickers) /\ exported # None
                           /\ exported[1].csv.rows = results[1]
                           /\ exported[1].excel.rows = results[1])

C2_EveryTickerOnceThenExport ==
    /\ []C2_LoopInv
    /\ [][pc = "loop" /\ i' = i + 1 =>
            \/ results' = results /\ Len(errors') = Len(errors) + 1
            \/ Len(results'[1]) = Len(results[1]) + 1 /\ errors' = errors]_vars
    /\ [][pc = "loop" => pc' \in {"loop", "done"}]_vars
    /\ (pc = "loop") ~> (pc = "done")

C2_Witness ==
    /\ pc = "done"
    /\ Len(tickers) >= 3
    /\ Len(results[1]) = 1
    /\ results[1][1].Ticker = tickers[2]
    /\ Len(errors) = Len(tickers) - 1

\* C3: the table never holds two records with the same Ticker; the records'
\* tickers are those of the finished iterations, in discovery order; and
\* within a run the table changes only by appending a record whose Ticker is
\* the ticker of the iteration.
C3_TableInv ==
    results # None =>
        /\ \A a, b \in 1..Len(results[1]) : a # b => results[1][a].Ticker # results[1][b].Ticker
        /\ IsSubsequence(TableTickers, SubSeq(tickers, 1, i))

C3_TableUniqueOrderedAppendOnly ==
    /\ []C3_TableInv
    /\ [][pc = "loop" =>
            \/ results' = results
            \/ /\ Len(results'[1]) = Len(results[1]) + 1
               /\ SubSeq(results'[1], 1, Len(results[1])) = results[1]
               /\ results'[1][Len(results'[1])].Ticker = tickers[i + 1]]_vars

C3_Witness ==
    /\ pc = "loop"
    /\ i = 3
    /\ Len(results[1]) = 2
    /\ results[1][1].Ticker = tickers[1]
    /\ results[1][2].Ticker = tickers[3]

(***************************************************************************)
(* Properties of one get_financial_data call                               *)
(***************************************************************************)
RecordFields == {"Ticker", "Company_Name", "Sector", "EBITDA", "Net_Profit", "Net_Debt",
                 "Net_Assets", "Assets", "ROE", "ROA", "Net_Margin"}

\* a record of the call: Ticker is the argument, every other field a text or None
IsRecordFor(r, t) ==
    /\ DOMAIN r = RecordFields
    /\ r.Ticker = t
    /\ \A f \in RecordFields \ {"Ticker"} : r[f] = None \/ Len(r[f]) = 1

\* C1: whatever the fetch and the parse do, the call comes back to its caller
\* with a record or None; no exception leaves the function.
C1_NeverThrows ==
    /\ xpc # "escaped"
    /\ xpc # "returned" => ENABLED NextExtract
    /\ xpc = "returned" => (ret = None \/ IsRecordFor(ret[1], ticker))

C1_Witness ==
    /\ xpc = "returned"
    /\ ~response.raises
    /\ ret = None
    /\ errors = <<ErrorProcessing(ticker)>>

\* C9: the call returns None only if the fetch raised; whenever the fetch
\* gave a page, whatever is on it, the result is a record.
C9_AbsentOnlyIfFetchThrows ==
    (xpc = "returned" /\ ~response.raises) => (ret # None /\ IsRecordFor(ret[1], ticker))

\* The rules of the row loop as the specification lists them
RuleField == <<"EBITDA", "Net_Profit", "Net_Debt", "Net_Assets", "Assets", "ROE", "ROA",
               "Net_Margin">>

RuleTest(n, label, assetsUnset) ==
    CASE n = 1 -> StartsWith(label, LblEBITDA)
      [] n = 2 -> Contains(label, LblNetProfit)
      [] n = 3 -> Contains(label, LblNetDebt)
      [] n = 4 -> Contains(label, LblNetAssets)
      [] n = 5 -> Contains(label, LblAssets) /\ assetsUnset
      [] n = 6 -> Contains(label, LblROE)
      [] n = 7 -> Contains(label, LblROA)
      [] n = 8 -> Contains(label, LblNetMargin)

\* the first rule whose test holds (0 if none does)
FirstRule(label, assetsUnset) ==
    LET hold == {n \in 1..8 : RuleTest(n, label, assetsUnset)}
    IN  IF hold = {} THEN 0 ELSE CHOOSE n \in hold : \A m \in hold : n <= m

IsCandidate(row) == row.th # None /\ Len(row.tds) >= 6
LabelOf(row) == Strip(TagText(row.th[1]))
ValueOf(row) == Strip(row.tds[Len(row.tds) - 2])

\* the row the step from k to k+1 visits
RowVisited == xpc = "rows" /\ k' = k + 1
Visited == response.rows[k + 1]

\* the general rule of C7 for the row just visited
C7_OneFieldPerRow ==
    LET row == Visited
        n == IF IsCandidate(row) THEN FirstRule(LabelOf(row), data.Assets = None) ELSE 0
    IN  /\ DOMAIN data' = DOMAIN data
        /\ \A f \in DOMAIN data :
              IF n # 0 /\ f = RuleField[n]
              THEN data'[f] = Some(ValueOf(row))
              ELSE data'[f] = data[f]

\* a label that starts with EBITDA sets EBITDA whatever else it contains
C7_PrefixSetsEBITDA ==
    LET row == Visited
    IN  (IsCandidate(row) /\ StartsWith(LabelOf(row), LblEBITDA)) =>
            data'.EBITDA = Some(ValueOf(row))

\* EBITDA inside the label, not at its start, together with net assets
EBITDAInsideWithNetAssets(label) ==
    /\ Contains(label, LblEBITDA)
    /\ ~StartsWith(label, LblEBITDA)
    /\ Contains(label, LblNetAssets)

\* C7 as claimed: each candidate row writes the field of the first rule that
\* holds and nothing else, other rows write nothing; a label with EBITDA
\* inside and net assets sets Net_Assets and not EBITDA; a label starting
\* with EBITDA sets EBITDA.
C7_FirstRuleWinsAsClaimed ==
    [][RowVisited =>
          /\ C7_OneFieldPerRow
          /\ C7_PrefixSetsEBITDA
          /\ (IsCandidate(Visited) /\ EBITDAInsideWithNetAssets(LabelOf(Visited))) =>
                (data'.Net_Assets = Some(ValueOf(Visited)) /\ data'.EBITDA = data.EBITDA)]_vars

\* C7 amended: as claimed, the label with EBITDA inside and net assets
\* setting Net_Assets provided it names neither net profit nor net debt.
C7_FirstRuleWins ==
    [][RowVisited =>
          /\ C7_OneFieldPerRow
          /\ C7_PrefixSetsEBITDA
          /\ (/\ IsCandidate(Visited)
              /\ EBITDAInsideWithNetAssets(LabelOf(Visited))
              /\ ~Contains(LabelOf(Visited), LblNetProfit)
              /\ ~Contains(LabelOf(Visited), LblNetDebt)) =>
                (data'.Net_Assets = Some(ValueOf(Visited)) /\ data'.EBITDA = data.EBITDA)]_vars

C7_Witness ==
    /\ xpc = "rows"
    /\ k = 2
    /\ \A j \in 1..2 : IsCandidate(response.rows[j])
    /\ LabelOf(response.rows[1]) = LblEBITDA \o LblNetProfit
    /\ LabelOf(response.rows[2]) = LblNetAssets \o <<"(">> \o LblEBITDA \o <<")">>
    /\ ValueOf(response.rows[1]) # ValueOf(response.rows[2])
    /\ data.EBITDA = Some(ValueOf(response.rows[1]))
    /\ data.Net_Assets = Some(ValueOf(response.rows[2]))
    /\ data.Net_Profit = None

\* the rows of the page that hit rule n, reading the page from the top:
\* Assets is unset at a row when no earlier row hit the Assets rule
AssetsRows(rows) == {j \in 1..Len(rows) : IsCandidate(rows[j]) /\ FirstRule(LabelOf(rows[j]), TRUE) = 5}
Hits(rows, n) ==
    {j \in 1..Len(rows) :
        /\ IsCandidate(rows[j])
        /\ FirstRule(LabelOf(rows[j]), \A q \in AssetsRows(rows) : q >= j) = n}

SetMin(S) == CHOOSE x \in S : \A y \in S : x <= y
SetMax(S) == CHOOSE x \in S : \A y \in S : x >= y

\* C8: once a row has set Assets no later row of the call changes it, so the
\* returned Assets is the value of the first row that hit the Assets rule;
\* every other financial field returns the value of the last row that hit
\* its rule (None when no row did).
C8_Returned ==
    (xpc = "returned" /\ ret # None) =>
        \A n \in 1..8 :
            LET hits == Hits(response.rows, n)
                row == response.rows[IF n = 5 THEN SetMin(hits) ELSE SetMax(hits)]
            IN  ret[1][RuleField[n]] = IF hits = {} THEN None ELSE Some(ValueOf(row))

C8_AssetsFirstOthersLast ==
    /\ []C8_Returned
    /\ [][(xpc \in {"name", "sector", "rows"} /\ data.Assets # None) =>
              data'.Assets = data.Assets]_vars

C8_Witness ==
    /\ xpc = "returned"
    /\ ret # None
    /\ Len(response.rows) = 2
    /\ \A j \in 1..2 : IsCandidate(response.rows[j])
    /\ LabelOf(response.rows[1]) = LblAssets
    /\ LabelOf(response.rows[2]) = LblAssets \o LblROE
    /\ ValueOf(response.rows[1]) # ValueOf(response.rows[2])
    /\ ret[1].Assets = Some(ValueOf(response.rows[1]))
    /\ ret[1].ROE = Some(ValueOf(response.rows[2]))

====
